---- MODULE Spec2Model ----
(***************************************************************************)
(* Model of the Streamlit image converter page (src/src/image_converter.py) *)
(*                                                                         *)
(* One page run of render_image_converter is split at the two places where *)
(* it blocks on a thread pool: process_images_parallel (executor.map) and  *)
(* create_zip (submit + as_completed).  Worker threads are modelled by the *)
(* states of the futures; the script thread by pc.                         *)
(*                                                                         *)
(* Text (file names, format labels) is a sequence of one-character strings *)
(* so that lower(), endswith() and Path.stem are computed, not assumed.    *)
(* An optional value (None or a value) is <<>> or <<value>>.               *)
(*                                                                         *)
(* The user acts between page runs (pc = "idle"), one widget at a time.    *)
(* log holds the error traces only (logger.error), those of the current   *)
(* page run.  The pool variables are empty outside a call.                 *)
(***************************************************************************)
EXTENDS Integers, Sequences, FiniteSets, TLC

\* Longest list of files the uploader hands to one page run.
MaxFiles == 2

\* ThreadPoolExecutor() without max_workers: min(32, cpu_count + 4), at least 5.
MaxWorkers == 5

None == <<>>
Some(x) == <<x>>

Range(s) == {s[i] : i \in DOMAIN s}

Min(S) == CHOOSE x \in S : \A y \in S : x <= y

\* Number of positions of s that hold x.
CountIn(s, x) == Cardinality({i \in DOMAIN s : s[i] = x})

-----------------------------------------------------------------------------
(* Text *)

\* str.lower() on one character (the characters the model's names use).
LowerChar(c) ==
    CASE c = "A" -> "a" [] c = "B" -> "b" [] c = "C" -> "c" [] c = "E" -> "e"
      [] c = "G" -> "g" [] c = "H" -> "h" [] c = "I" -> "i" [] c = "J" -> "j"
      [] c = "N" -> "n" [] c = "P" -> "p" [] c = "W" -> "w"
      [] OTHER -> c

\* str.lower()
Lower(s) == [i \in DOMAIN s |-> LowerChar(s[i])]

\* str.endswith(suffix)
EndsWith(s, suffix) ==
    /\ Len(suffix) <= Len(s)
    /\ SubSeq(s, Len(s) - Len(suffix) + 1, Len(s)) = suffix

\* str.rfind("."): the last position holding a dot, 0 when there is none
\* (positions from 1, so Python's -1 and 0 are both below 1 here).
RFindDot(s) ==
    LET dots == {i \in DOMAIN s : s[i] = "."}
    IN IF dots = {} THEN 0 ELSE CHOOSE i \in dots : \A j \in dots : j <= i

\* A variant that cuts at the first dot.
StemFirstDot(name) ==
    LET dots == {i \in DOMAIN name : name[i] = "."}
    IN IF dots = {} THEN name
       ELSE SubSeq(name, 1, Min(dots) - 1)

\* Path(name).stem for a bare file name (the uploader gives base names):
\* the name up to its last dot, unless that dot is the first or the last
\* character.
Stem(name) ==
    LET i == RFindDot(name)
    IN IF 1 < i /\ i < Len(name) THEN SubSeq(name, 1, i - 1) ELSE name

DotHeic == <<".", "h", "e", "i", "c">>

\* The options of the "Convert to:" selectbox.
PNG == <<"P", "N", "G">>
JPEG == <<"J", "P", "E", "G">>
WebP == <<"W", "e", "b", "P">>
Formats == <<PNG, JPEG, WebP>>
FormatSet == Range(Formats)

-----------------------------------------------------------------------------
(* Uploaded files: a name and the bytes behind it.  The bytes are one of    *)
(* three kinds: an RGB picture, an RGBA picture, bytes no decoder accepts.  *)

FileAB_HEIC == [name |-> <<"a", ".", "b", ".", "H", "E", "I", "C">>, data |-> "rgb"]
FileAB_png == [name |-> <<"a", ".", "b", ".", "p", "n", "g">>, data |-> "rgba"]
FileC_jpg == [name |-> <<"c", ".", "j", "p", "g">>, data |-> "corrupt"]
FileD_heic == [name |-> <<"d", ".", "h", "e", "i", "c">>, data |-> "corrupt"]

FileSet == {FileAB_HEIC, FileAB_png, FileC_jpg, FileD_heic}

RECURSIVE SeqsOfLen(_, _)
SeqsOfLen(S, n) ==
    IF n = 0 THEN {<<>>}
    ELSE {Append(s, x) : s \in SeqsOfLen(S, n - 1), x \in S}

\* Every list the uploader can return.
Uploads == UNION {SeqsOfLen(FileSet, n) : n \in 0..MaxFiles}

\* The outcome of a call: a returned value or a raised exception.
Return(v) == [ok |-> TRUE, value |-> v]
Raise(e) == [ok |-> FALSE, exc |-> e]

\* pillow_heif.read_heif + Image.frombytes
process_heic(file) ==
    IF file.data = "corrupt"
    THEN Raise([type |-> "HeifError"])
    ELSE Return([mode |-> file.data, decoder |-> "heif"])

\* PIL.Image.open
ImageOpen(file) ==
    IF file.data = "corrupt"
    THEN Raise([type |-> "UnidentifiedImageError"])
    ELSE Return([mode |-> file.data, decoder |-> "pil"])

\* A variant that wraps the failure in an error naming the file.
process_image_wrapping(file) ==
    LET r == IF EndsWith(Lower(file.name), DotHeic)
             THEN process_heic(file) ELSE ImageOpen(file)
    IN IF r.ok
       THEN [outcome |-> Return([original_name |-> file.name, image |-> r.value]),
             trace |-> <<>>]
       ELSE [outcome |-> Raise([type |-> "DecodeError", name |-> file.name,
                                cause |-> r.exc]),
             trace |-> <<[source |-> "process_image", name |-> file.name,
                          exc |-> r.exc]>>]

\* ImageProcessor.process_image: the outcome and the error traces it logs.
\* The except clause logs the name and re-raises the exception unchanged.
process_image(file) ==
    LET r == IF EndsWith(Lower(file.name), DotHeic)
             THEN process_heic(file) ELSE ImageOpen(file)
    IN IF r.ok
       THEN [outcome |-> Return([original_name |-> file.name, image |-> r.value]),
             trace |-> <<>>]
       ELSE [outcome |-> Raise(r.exc),
             trace |-> <<[source |-> "process_image", name |-> file.name,
                          exc |-> r.exc]>>]

\* Image.save(buffer, format): JPEG has no alpha channel.
ImageSave(image, target_format) ==
    IF image.mode = "rgba" /\ target_format = JPEG
    THEN Raise([type |-> "OSError"])
    ELSE Return([format |-> target_format, pixels |-> image])

\* ImageConverter.convert_to_buffer
convert_to_buffer(processed_image, target_format) ==
    LET saved == ImageSave(processed_image.image, target_format)
        base_name == Stem(processed_image.original_name)
        new_name == base_name \o <<".">> \o Lower(target_format)
    IN IF saved.ok
       THEN Return([name |-> new_name, data |-> saved.value])
       ELSE saved

-----------------------------------------------------------------------------
(* State *)

VARIABLES
    session_state,    \* st.session_state: no keys before the first run
    uploaded_files,   \* the file uploader's value
    target_format,    \* the selectbox's value
    pc,               \* where the script thread is
    path,             \* the branch the current or last page run took
    futures,          \* the futures of the pool of the call in progress (empty between calls)
    completion,       \* the futures' indices in the order the workers finished them
    consumed,         \* the futures the script thread has taken the result of
    results,          \* the list executor.map's results are collected into
    zip_file,         \* the entries written to the ZipFile
    log,              \* the error traces of the current page run
    convert_button,   \* whether the run rendered the "Convert All" button
    offered,          \* the data of the download button, None when there is none
    raised,           \* the exception that leaves the page run, None when there is none
    zip_calls         \* create_zip calls since processed_images was last assigned

vars == <<session_state, uploaded_files, target_format, pc, path, futures,
          completion, consumed, results, zip_file, log, convert_button,
          offered, raised, zip_calls>>

EmptyCache == [f \in {} |-> <<>>]

\* Lines 97-102: the session state of a new session.
initial_session_state ==
    [processed_images |-> None,
     last_files_processed |-> None,
     last_format |-> None,
     zip_cache |-> EmptyCache]

\* A variant that compares the files only.
needs_processing_files_only(ss, files, fmt) ==
    \/ ss.processed_images = None
    \/ ss.last_files_processed = None
    \/ Len(files) # Len(ss.last_files_processed[1])
    \/ \E i \in DOMAIN files :
           files[i].name # ss.last_files_processed[1][i].name

\* A variant that compares the number of files and the format only.
needs_processing_count_only(ss, files, fmt) ==
    \/ ss.processed_images = None
    \/ ss.last_files_processed = None
    \/ Len(files) # Len(ss.last_files_processed[1])
    \/ Some(fmt) # ss.last_format

\* Lines 114-123.  zip() stops at the shorter list; the lengths are equal
\* when the any() is evaluated.
needs_processing(ss, files, fmt) ==
    \/ ss.processed_images = None
    \/ ss.last_files_processed = None
    \/ Len(files) # Len(ss.last_files_processed[1])
    \/ \E i \in DOMAIN files :
           files[i].name # ss.last_files_processed[1][i].name
    \/ Some(fmt) # ss.last_format

\* A variant that resets nothing.
ResetNothing(ss) == ss

\* Lines 127-128.
ResetState(ss) ==
    [ss EXCEPT !.processed_images = None, !.zip_cache = EmptyCache]

\* A variant that never finds the archive.
AlwaysMiss(cache, fmt) == FALSE

\* Line 165: target_format in st.session_state.zip_cache
InCache(cache, fmt) == fmt \in DOMAIN cache

\* A variant that stores the archive under the lowercased format.
CachePutLowerKey(cache, fmt, zip_data) ==
    [f \in DOMAIN cache \cup {Lower(fmt)} |->
        IF f = Lower(fmt) THEN zip_data ELSE cache[f]]

\* Line 171: zip_cache[target_format] = zip_data
CachePut(cache, fmt, zip_data) ==
    [f \in DOMAIN cache \cup {fmt} |-> IF f = fmt THEN zip_data ELSE cache[f]]

\* executor.submit for every item: one pending future each.
Submitted(n) == [i \in 1..n |-> [state |-> "pending", outcome |-> None]]

NoPool ==
    /\ futures' = <<>>
    /\ completion' = <<>>
    /\ consumed' = {}
    /\ results' = <<>>
    /\ zip_file' = <<>>

NewPool(n) ==
    /\ futures' = Submitted(n)
    /\ completion' = <<>>
    /\ consumed' = {}
    /\ results' = <<>>
    /\ zip_file' = <<>>

\* One run of render_image_converter, up to the place where it ends or
\* blocks on a pool.  click is the value st.button returns in this run.
RunPage(files, fmt, click) ==
    LET ss0 == IF "processed_images" \in DOMAIN session_state
               THEN session_state ELSE initial_session_state
        needs == needs_processing(ss0, files, fmt)
        ss1 == IF needs THEN ResetState(ss0) ELSE ss0
    IN /\ uploaded_files' = files
       /\ log' = <<>>
       /\ raised' = None
       /\ convert_button' = (files # <<>> /\ needs)
       /\ IF files = <<>>
          THEN \* line 110: nothing is rendered; the selectbox is not created
               \* and shows its first option when it is created again
               /\ target_format' = Formats[1]
               /\ session_state' = ss0
               /\ pc' = "idle"
               /\ path' = "no_files"
               /\ offered' = None
               /\ NoPool
               /\ UNCHANGED zip_calls
          ELSE /\ target_format' = fmt
               /\ IF needs /\ click
                  THEN \* lines 134-139
                       /\ session_state' = ss1
                       /\ pc' = "decode"
                       /\ path' = "decoding"
                       /\ offered' = None
                       /\ NewPool(Len(files))
                       /\ UNCHANGED zip_calls
                  ELSE IF ss1.processed_images = None
                  THEN \* line 147 is false: the run ends
                       /\ session_state' = ss1
                       /\ pc' = "idle"
                       /\ path' = IF needs THEN "button" ELSE "blank"
                       /\ offered' = None
                       /\ NoPool
                       /\ UNCHANGED zip_calls
                  ELSE IF InCache(ss1.zip_cache, fmt)
                  THEN \* lines 172-182
                       /\ session_state' = ss1
                       /\ pc' = "idle"
                       /\ path' = "cache_hit"
                       /\ offered' = Some(ss1.zip_cache[fmt])
                       /\ NoPool
                       /\ UNCHANGED zip_calls
                  ELSE \* lines 165-168 and 72-79
                       /\ session_state' = ss1
                       /\ pc' = "zip"
                       /\ path' = "zipping"
                       /\ offered' = None
                       /\ NewPool(Len(ss1.processed_images[1]))
                       /\ zip_calls' = zip_calls + 1

-----------------------------------------------------------------------------
(* What starts a page run *)

\* The script runs: the first load of the page, or st.rerun() of line 144.
ScriptRun ==
    /\ pc = "rerun"
    /\ RunPage(uploaded_files, target_format, FALSE)

\* The user changes the uploaded files.
Upload(files) ==
    /\ pc = "idle"
    /\ files # uploaded_files
    /\ RunPage(files, target_format, FALSE)

\* The user picks another format; the selectbox exists only with files.
SelectFormat(fmt) ==
    /\ pc = "idle"
    /\ uploaded_files # <<>>
    /\ fmt # target_format
    /\ RunPage(uploaded_files, fmt, FALSE)

\* The user clicks "Convert All", which the last run rendered.
ClickConvert ==
    /\ pc = "idle"
    /\ convert_button
    /\ RunPage(uploaded_files, target_format, TRUE)

\* The user flips the toggle or clicks the download button.
ToggleOrDownload ==
    /\ pc = "idle"
    /\ path \in {"zip_built", "cache_hit"}
    /\ RunPage(uploaded_files, target_format, FALSE)

-----------------------------------------------------------------------------
(* The thread pool of the call in progress *)

Running == {i \in DOMAIN futures : futures[i].state = "running"}
Pending == {i \in DOMAIN futures : futures[i].state = "pending"}
Finished == {i \in DOMAIN futures : futures[i].state = "finished"}

\* A variant that does not wait: shutdown(wait=False).
LeftRunning(futs) == TRUE

\* The end of a "with ThreadPoolExecutor()" block, shutdown(wait=True): the
\* block is left when every work item has finished or was cancelled.
PoolJoined(futs) ==
    \A i \in DOMAIN futs : futs[i].state \in {"finished", "cancelled"}

Finish(i, outcome) ==
    /\ futures' = [futures EXCEPT ![i] = [state |-> "finished",
                                          outcome |-> Some(outcome)]]
    /\ completion' = Append(completion, i)

\* A worker thread takes the oldest queued work item.
WorkerStart(i) ==
    /\ pc \in {"decode", "zip", "zip_exit"}
    /\ i \in Pending
    /\ \A j \in Pending : i <= j
    /\ Cardinality(Running) < MaxWorkers
    /\ futures' = [futures EXCEPT ![i].state = "running"]
    /\ UNCHANGED <<session_state, uploaded_files, target_format, pc, path,
                   completion, consumed, results, zip_file, log,
                   convert_button, offered, raised, zip_calls>>

\* A worker finishes process_image for input i.
DecodeFinish(i) ==
    /\ pc \in {"decode", "decode_exit"}
    /\ i \in Running
    /\ LET r == process_image(uploaded_files[i])
       IN /\ Finish(i, r.outcome)
          /\ log' = log \o r.trace
    /\ UNCHANGED <<session_state, uploaded_files, target_format, pc, path,
                   consumed, results, zip_file, convert_button, offered,
                   raised, zip_calls>>

\* A variant that takes the futures as they finish.
AnyFinished(futs, taken) ==
    {i \in DOMAIN futs : i \notin taken /\ futs[i].state = "finished"}

\* executor.map's result iterator: the futures one by one in the order of
\* submission; the set holds the one future it takes next.
MapWaitsFor(futs, taken) ==
    {i \in DOMAIN futs : i \notin taken /\ \A j \in 1..(i - 1) : j \in taken}

\* A variant that passes over the futures that raised.
FinishedOk(futs, taken) ==
    {i \in DOMAIN futs : /\ i \notin taken
                         /\ futs[i].state = "finished"
                         /\ futs[i].outcome[1].ok}

\* as_completed: a future that has finished and was not yet yielded.  Which
\* one, when several have finished, is left open by the library.
as_completed(futs, taken) ==
    {i \in DOMAIN futs : i \notin taken /\ futs[i].state = "finished"}

\* list(executor.map(...)) takes the next result.
MapYield ==
    /\ pc = "decode"
    /\ \E k \in MapWaitsFor(futures, consumed) :
          /\ k \in Finished
          /\ futures[k].outcome[1].ok
          /\ results' = Append(results, futures[k].outcome[1].value)
          /\ consumed' = consumed \cup {k}
    /\ UNCHANGED <<session_state, uploaded_files, target_format, pc, path,
                   futures, completion, zip_file, log, convert_button,
                   offered, raised, zip_calls>>

\* The next result is an exception: the iterator cancels the futures that
\* have not started and the exception leaves list(); the with block of
\* line 49 then waits for the running workers.
MapRaise ==
    /\ pc = "decode"
    /\ \E k \in MapWaitsFor(futures, consumed) :
          /\ k \in Finished
          /\ ~futures[k].outcome[1].ok
          /\ raised' = Some([exc |-> futures[k].outcome[1].exc, future |-> k])
          /\ consumed' = consumed \cup {k}
    /\ futures' = [i \in DOMAIN futures |->
                      IF i \in Pending
                      THEN [state |-> "cancelled", outcome |-> None]
                      ELSE futures[i]]
    /\ pc' = "decode_exit"
    /\ UNCHANGED <<session_state, uploaded_files, target_format, path,
                   completion, results, zip_file, log, convert_button,
                   offered, zip_calls>>

\* Lines 137-144: process_images_parallel returned.
DecodeReturn ==
    /\ pc = "decode"
    /\ consumed = DOMAIN futures
    /\ PoolJoined(futures)
    /\ session_state' = [session_state EXCEPT
                            !.processed_images = Some(results),
                            !.last_files_processed = Some(uploaded_files),
                            !.last_format = Some(target_format)]
    /\ zip_calls' = 0
    /\ pc' = "rerun"
    /\ path' = "decode_ok"
    /\ NoPool
    /\ UNCHANGED <<uploaded_files, target_format, log, convert_button,
                   offered, raised>>

\* A variant in which the worker writes its entry to the archive itself.
EncodeFinishWriting(i) ==
    /\ pc \in {"zip", "zip_exit"}
    /\ i \in Running
    /\ LET outcome == convert_to_buffer(session_state.processed_images[1][i],
                                        target_format)
       IN /\ Finish(i, outcome)
          /\ zip_file' = IF outcome.ok THEN Append(zip_file, outcome.value)
                                       ELSE zip_file
    /\ UNCHANGED <<session_state, uploaded_files, target_format, pc, path,
                   consumed, results, log, convert_button, offered,
                   raised, zip_calls>>

\* A worker finishes convert_to_buffer for image i.
EncodeFinish(i) ==
    /\ pc \in {"zip", "zip_exit"}
    /\ i \in Running
    /\ Finish(i, convert_to_buffer(session_state.processed_images[1][i],
                                   target_format))
    /\ UNCHANGED <<session_state, uploaded_files, target_format, pc, path,
                   consumed, results, zip_file, log, convert_button, offered,
                   raised, zip_calls>>

\* A variant without the try of line 81.
add_to_zip_unguarded(zf, lg, outcome) ==
    IF outcome.ok
    THEN [zip_file |-> Append(zf, outcome.value), log |-> lg, raised |-> None]
    ELSE [zip_file |-> zf, log |-> lg, raised |-> Some(outcome.exc)]

\* A variant in which an entry replaces the entry of the same name.
add_to_zip_replacing(zf, lg, outcome) ==
    IF outcome.ok
    THEN [zip_file |->
             Append(SelectSeq(zf, LAMBDA e : e.name # outcome.value.name),
                    outcome.value),
          log |-> lg, raised |-> None]
    ELSE [zip_file |-> zf,
          log |-> Append(lg, [source |-> "create_zip", exc |-> outcome.exc]),
          raised |-> None]

\* Lines 81-86: the body of the as_completed loop.
add_to_zip(zf, lg, outcome) ==
    IF outcome.ok
    THEN [zip_file |-> Append(zf, outcome.value), log |-> lg, raised |-> None]
    ELSE [zip_file |-> zf,
          log |-> Append(lg, [source |-> "create_zip", exc |-> outcome.exc]),
          raised |-> None]

\* Lines 80-86: the script thread takes a finished future.
ZipCollect ==
    /\ pc = "zip"
    /\ \E i \in as_completed(futures, consumed) :
          LET h == add_to_zip(zip_file, log, futures[i].outcome[1])
          IN /\ zip_file' = h.zip_file
             /\ log' = h.log
             /\ consumed' = consumed \cup {i}
             /\ IF h.raised = None
                THEN UNCHANGED <<raised, pc>>
                ELSE /\ raised' = Some([exc |-> h.raised[1], future |-> i])
                     /\ pc' = "zip_exit"
    /\ UNCHANGED <<session_state, uploaded_files, target_format, path,
                   futures, completion, results, convert_button, offered,
                   zip_calls>>

\* Lines 88-89 and 171-182: create_zip returned.
ZipReturn ==
    /\ pc = "zip"
    /\ consumed = DOMAIN futures
    /\ PoolJoined(futures)
    /\ session_state' = [session_state EXCEPT
                            !.zip_cache = CachePut(@, target_format, zip_file)]
    /\ offered' = Some(zip_file)
    /\ pc' = "idle"
    /\ path' = "zip_built"
    /\ NoPool
    /\ UNCHANGED <<uploaded_files, target_format, log, convert_button, raised,
                   zip_calls>>

\* The with block of a failed call ends when no worker is left; the
\* exception then leaves the page run.
PoolExit ==
    /\ pc \in {"decode_exit", "zip_exit"}
    /\ PoolJoined(futures)
    /\ path' = IF pc = "decode_exit" THEN "decode_failed" ELSE "zip_failed"
    /\ pc' = "idle"
    /\ NoPool
    /\ UNCHANGED <<session_state, uploaded_files, target_format, log,
                   convert_button, offered, raised, zip_calls>>

-----------------------------------------------------------------------------

Init ==
    /\ session_state = [k \in {} |-> None]
    /\ uploaded_files = <<>>
    /\ target_format = Formats[1]
    /\ pc = "rerun"
    /\ path = "start"
    /\ futures = <<>>
    /\ completion = <<>>
    /\ consumed = {}
    /\ results = <<>>
    /\ zip_file = <<>>
    /\ log = <<>>
    /\ convert_button = FALSE
    /\ offered = None
    /\ raised = None
    /\ zip_calls = 0

Next ==
    \/ ScriptRun
    \/ \E files \in Uploads : Upload(files)
    \/ \E fmt \in FormatSet : SelectFormat(fmt)
    \/ ClickConvert
    \/ ToggleOrDownload
    \/ \E i \in DOMAIN futures : WorkerStart(i)
    \/ \E i \in DOMAIN futures : DecodeFinish(i)
    \/ MapYield
    \/ MapRaise
    \/ DecodeReturn
    \/ \E i \in DOMAIN futures : EncodeFinish(i)
    \/ ZipCollect
    \/ ZipReturn
    \/ PoolExit

Spec == Init /\ [][Next]_vars

\* The steps of the worker threads of the pool.
WorkerStep ==
    \/ \E i \in DOMAIN futures : WorkerStart(i)
    \/ \E i \in DOMAIN futures : DecodeFinish(i)
    \/ \E i \in DOMAIN futures : EncodeFinish(i)

\* The steps of the script thread inside a call.
CallerStep ==
    \/ MapYield
    \/ MapRaise
    \/ DecodeReturn
    \/ ZipCollect
    \/ ZipReturn
    \/ PoolExit

\* A session in which the user has uploaded a list of files and picked a
\* format, and the page shows the "Convert All" button.
ConversionInit ==
    /\ session_state = ResetState(initial_session_state)
    /\ uploaded_files \in Uploads \ {<<>>}
    /\ target_format \in FormatSet
    /\ pc = "idle"
    /\ path = "button"
    /\ futures = <<>>
    /\ completion = <<>>
    /\ consumed = {}
    /\ results = <<>>
    /\ zip_file = <<>>
    /\ log = <<>>
    /\ convert_button = TRUE
    /\ offered = None
    /\ raised = None
    /\ zip_calls = 0

\* The conversions of that list: the user clicks "Convert All" (again after
\* a failure) and looks at the results; the files and the format stay.
ConversionNext ==
    \/ ClickConvert
    \/ ScriptRun
    \/ ToggleOrDownload
    \/ WorkerStep
    \/ CallerStep

\* Every decode and encode task ends and the threads are scheduled: a
\* worker that can step does, and so does the script thread.  The calls of
\* process_images_parallel and create_zip depend on the files and the format
\* only, so one list and one format per behaviour cover them.
FairSpec ==
    /\ ConversionInit
    /\ [][ConversionNext]_vars
    /\ WF_vars(WorkerStep)
    /\ WF_vars(CallerStep)

-----------------------------------------------------------------------------
(* Properties *)

Initialized == "processed_images" \in DOMAIN session_state

\* The session holds a decoded batch.
HasBatch == Initialized /\ session_state.processed_images # None

Batch == session_state.processed_images[1]
LastFiles == session_state.last_files_processed[1]

\* The list differs from the last processed one in count or in a name.
ListDiffers(files, last) ==
    \/ Len(files) # Len(last)
    \/ \E i \in DOMAIN files : files[i].name # last[i].name

\* The names an exception carries.
CarriedNames(exc) == IF "name" \in DOMAIN exc THEN {exc.name} ELSE {}

\* The inputs of the files that no decoder accepts.
Undecodable(files) == {i \in DOMAIN files : files[i].data = "corrupt"}

\* The images of a batch that cannot be written in a format.
Unencodable(batch, fmt) ==
    {i \in DOMAIN batch : batch[i].image.mode = "rgba" /\ fmt = JPEG}

\* C1: when every input decodes, process_images_parallel returns one element
\* per input, the i-th decoded from the i-th input, whatever the order in
\* which the workers finish.
C1_DecodeKeepsInputOrder ==
    /\ pc = "decode" =>
          /\ Len(results) <= Len(uploaded_files)
          /\ \A i \in DOMAIN results :
                /\ results[i].original_name = uploaded_files[i].name
                /\ results[i].image.mode = uploaded_files[i].data
          /\ (consumed = DOMAIN futures => Len(results) = Len(uploaded_files))
    /\ HasBatch =>
          /\ Len(Batch) = Len(LastFiles)
          /\ \A i \in DOMAIN Batch :
                /\ Batch[i].original_name = LastFiles[i].name
                /\ Batch[i].image.mode = LastFiles[i].data

\* Two inputs of different names, the second decoded first, both collected.
C1_Witness ==
    /\ pc = "decode"
    /\ consumed = DOMAIN futures
    /\ Len(results) = 2
    /\ completion = <<2, 1>>
    /\ results[1].original_name # results[2].original_name

\* C2: a batch with an undecodable input never yields a decoded batch; once
\* the call has failed the session holds no decoded batch, the cache is
\* empty and nothing is offered.
C2_DecodeAllOrNothing ==
    /\ HasBatch => Undecodable(LastFiles) = {}
    /\ (pc = "decode" /\ consumed = DOMAIN futures) =>
          Undecodable(uploaded_files) = {}
    /\ (pc = "decode_exit" \/ path = "decode_failed") =>
          /\ raised # None
          /\ session_state.processed_images = None
          /\ session_state.zip_cache = EmptyCache
          /\ offered = None

\* The call fails although a worker has decoded another input.
C2_Witness ==
    /\ pc = "decode_exit"
    /\ Running = {}
    /\ \E i \in Finished : futures[i].outcome[1].ok
    /\ session_state.last_files_processed # None

\* C3 as stated: changing the format with the files unchanged leaves the
\* archive cached for the previous format in the cache, unmodified.
C3_FormatChangeKeepsArchive ==
    [][(/\ HasBatch
        /\ uploaded_files # <<>>
        /\ uploaded_files' = uploaded_files
        /\ target_format' # target_format
        /\ target_format \in DOMAIN session_state.zip_cache)
       => /\ target_format \in DOMAIN session_state'.zip_cache
          /\ session_state'.zip_cache[target_format]
                = session_state.zip_cache[target_format]]_vars

\* C3 as amended: changing the format with the files unchanged empties the
\* cache and discards the decoded batch; the run offers no archive, only the
\* "Convert All" button.
C3_FormatChangeEmptiesCache ==
    [][(/\ Initialized
        /\ uploaded_files # <<>>
        /\ uploaded_files' = uploaded_files
        /\ target_format' # target_format)
       => /\ session_state'.zip_cache = EmptyCache
          /\ session_state'.processed_images = None
          /\ offered' = None
          /\ convert_button'
          /\ pc' = "idle"]_vars

\* The format was changed after an archive had been built for the batch.
C3_Witness ==
    /\ pc = "idle"
    /\ path = "button"
    /\ zip_calls = 1
    /\ session_state.last_format # None
    /\ session_state.last_format # Some(target_format)
    /\ ~ListDiffers(uploaded_files, LastFiles)
    /\ session_state.zip_cache = EmptyCache

\* A page run that finds the archive of its format in the cache.
CacheHitRun ==
    /\ pc \in {"idle", "rerun"}
    /\ HasBatch
    /\ uploaded_files' # <<>>
    /\ ~ListDiffers(uploaded_files', LastFiles)
    /\ Some(target_format') = session_state.last_format
    /\ target_format' \in DOMAIN session_state.zip_cache

\* C4: a run that finds its archive cached builds nothing and offers the
\* stored archive; for one batch create_zip is called at most once, and what
\* is offered is what the cache holds.
C4_CacheHitNoWork ==
    /\ [](zip_calls <= 1)
    /\ []((pc = "idle" /\ offered # None) =>
             /\ target_format \in DOMAIN session_state.zip_cache
             /\ offered = Some(session_state.zip_cache[target_format]))
    /\ [][CacheHitRun =>
             /\ session_state' = session_state
             /\ zip_calls' = zip_calls
             /\ futures' = <<>>
             /\ pc' = "idle"
             /\ offered' = Some(session_state.zip_cache[target_format'])]_vars

\* A run served from the cache after the one build of the batch.
C4_Witness ==
    /\ path = "cache_hit"
    /\ zip_calls = 1
    /\ offered = Some(session_state.zip_cache[target_format])
    /\ Len(offered[1]) = 2

\* C5 as stated: with the files unchanged the decoded batch is kept when
\* another format is requested.
C5_BatchKeptAcrossFormats ==
    [][(/\ HasBatch
        /\ uploaded_files # <<>>
        /\ uploaded_files' = uploaded_files)
       => /\ HasBatch'
          /\ session_state'.processed_images
                = session_state.processed_images]_vars

\* C5 as amended: the decoded batch is kept, unchanged and without a new
\* decode, exactly as long as the files and the format are those of the last
\* conversion; a run with another format discards it.
C5_BatchKeptForSameFormatOnly ==
    [][(HasBatch /\ uploaded_files' # <<>>)
       => /\ HasBatch' <=>
                /\ ~ListDiffers(uploaded_files', LastFiles)
                /\ Some(target_format') = session_state.last_format
          /\ HasBatch' =>
                /\ session_state'.processed_images
                      = session_state.processed_images
                /\ pc' # "decode"]_vars

\* The files are those of the last conversion, the format is not: the batch
\* is gone and a new conversion is needed.
C5_Witness ==
    /\ pc = "idle"
    /\ convert_button
    /\ Initialized
    /\ session_state.last_files_processed # None
    /\ uploaded_files = LastFiles
    /\ session_state.last_format # Some(target_format)
    /\ session_state.processed_images = None

\* C6: after a run with a list that differs from the last processed one in
\* count or in a name the cache is empty, and no step removes a part of the
\* cache.
C6_CacheClearedOnInputChange ==
    /\ []((/\ pc = "idle"
           /\ Initialized
           /\ session_state.last_files_processed # None
           /\ ListDiffers(uploaded_files, LastFiles))
          => session_state.zip_cache = EmptyCache)
    /\ [][Initialized =>
             \/ session_state'.zip_cache = EmptyCache
             \/ \A f \in DOMAIN session_state.zip_cache :
                   /\ f \in DOMAIN session_state'.zip_cache
                   /\ session_state'.zip_cache[f] = session_state.zip_cache[f]]_vars

\* What convert_to_buffer gives for image i of the batch.
Encoded(i) == convert_to_buffer(Batch[i], target_format)

\* C7: create_zip returns although encodes fail: the archive holds exactly
\* the entries of the images that can be written, each failure leaves one
\* error trace, and no exception leaves the call.
C7_EncodeFailuresOmitted ==
    /\ pc # "zip_exit"
    /\ path # "zip_failed"
    /\ path = "zip_built" =>
          LET bad == Unencodable(Batch, target_format)
              good == DOMAIN Batch \ bad
          IN /\ raised = None
             /\ offered # None
             /\ Len(offered[1]) = Cardinality(good)
             /\ \A i \in good :
                   CountIn(offered[1], Encoded(i).value)
                      = Cardinality({j \in good : Encoded(j) = Encoded(i)})
             /\ Len(log) = Cardinality(bad)
             /\ \A k \in DOMAIN log :
                   log[k] = [source |-> "create_zip", exc |-> [type |-> "OSError"]]

\* One of two images cannot be written: the archive has the other one.
C7_Witness ==
    /\ path = "zip_built"
    /\ Len(Batch) = 2
    /\ Cardinality(Unencodable(Batch, target_format)) = 1
    /\ Len(offered[1]) = 1
    /\ Len(log) = 1

\* The input whose exception left process_images_parallel.
FailedInput == uploaded_files[raised[1].future]

\* C8 as stated: the error of a failed decode is a DecodeError that carries
\* the name of the undecodable input, and no decoded image is produced.
C8_ErrorNamesInput ==
    path = "decode_failed" =>
       /\ raised[1].exc.type = "DecodeError"
       /\ CarriedNames(raised[1].exc) = {FailedInput.name}
       /\ session_state.processed_images = None

\* C8 as amended: the error of a failed decode is the decoder's own
\* exception for an undecodable input, re-raised unchanged; it carries no
\* name; the name is in the error trace process_image logs; no decoded
\* image is produced.
C8_ErrorIsDecodersException ==
    path = "decode_failed" =>
       /\ FailedInput.data = "corrupt"
       /\ raised[1].exc =
             [type |-> IF FailedInput.name = FileD_heic.name
                       THEN "HeifError" ELSE "UnidentifiedImageError"]
       /\ CarriedNames(raised[1].exc) = {}
       /\ \E k \in DOMAIN log :
             log[k] = [source |-> "process_image", name |-> FailedInput.name,
                       exc |-> raised[1].exc]
       /\ session_state.processed_images = None

\* A failed decode of two inputs, the .heic one being the one that failed.
C8_Witness ==
    /\ path = "decode_failed"
    /\ Len(uploaded_files) = 2
    /\ FailedInput = FileD_heic
    /\ Undecodable(uploaded_files) = {raised[1].future}

\* The stems of the names of FileSet, written out.
StemOf(name) ==
    CASE name = FileAB_HEIC.name -> <<"a", ".", "b">>
      [] name = FileAB_png.name -> <<"a", ".", "b">>
      [] name = FileC_jpg.name -> <<"c">>
      [] name = FileD_heic.name -> <<"d">>

\* The extensions of the formats, written out.
ExtensionOf(fmt) ==
    CASE fmt = PNG -> <<".", "p", "n", "g">>
      [] fmt = JPEG -> <<".", "j", "p", "e", "g">>
      [] fmt = WebP -> <<".", "w", "e", "b", "p">>

MemberNames(archive) == [k \in DOMAIN archive |-> archive[k].name]

ExpectedNames(batch, fmt) ==
    [i \in DOMAIN batch |-> StemOf(batch[i].original_name) \o ExtensionOf(fmt)]

\* C9: when no encode fails the archive has one member per image and its
\* member names are, as a multiset, the stems of the original names with the
\* lowercased format as extension; equal names are both kept.
C9_ArchiveMemberNames ==
    (path = "zip_built" /\ Unencodable(Batch, target_format) = {}) =>
       LET names == MemberNames(offered[1])
           expected == ExpectedNames(Batch, target_format)
       IN /\ Len(names) = Len(Batch)
          /\ \A n \in Range(names) \cup Range(expected) :
                CountIn(names, n) = CountIn(expected, n)

\* "a.b.HEIC" and "a.b.png" to PNG: two members, both named "a.b.png".
C9_Witness ==
    /\ path = "zip_built"
    /\ target_format = PNG
    /\ Len(Batch) = 2
    /\ Batch[1].original_name # Batch[2].original_name
    /\ MemberNames(offered[1])
          = << <<"a", ".", "b", ".", "p", "n", "g">>,
               <<"a", ".", "b", ".", "p", "n", "g">> >>

\* C10: the exception that leaves a failed process_images_parallel is that
\* of the undecodable input of the lowest index, whatever the order in which
\* the workers finish.
C10_FirstByIndexError ==
    (pc = "decode_exit" \/ path = "decode_failed") =>
       /\ raised # None
       /\ raised[1].future = Min(Undecodable(uploaded_files))
       /\ raised[1].exc = process_image(FailedInput).outcome.exc

\* Two undecodable inputs, the second having failed first.
C10_Witness ==
    /\ pc = "decode_exit"
    /\ Undecodable(uploaded_files) = {1, 2}
    /\ completion = <<2, 1>>
    /\ raised[1].future = 1
    /\ uploaded_files[1] # uploaded_files[2]

\* The positions of the script thread inside a pool call.
InCall == {"decode", "decode_exit", "zip", "zip_exit"}

\* C11: when process_images_parallel or create_zip returns or raises, no work
\* item of the call is running or queued, and the pool is gone; between
\* calls there is no pool.
C11_PoolTornDownAtReturn ==
    /\ [](pc \notin InCall => futures = <<>>)
    /\ [][(pc \in InCall /\ pc' \notin InCall) =>
             /\ Running = {}
             /\ Pending = {}
             /\ futures' = <<>>]_vars

\* The call has failed on its first input while the second was queued; the
\* queued item was cancelled and the with block can be left.
C11_Witness ==
    /\ pc = "decode_exit"
    /\ Len(futures) = 2
    /\ raised[1].future = 1
    /\ futures[2].state = "cancelled"
    /\ PoolJoined(futures)

\* C12: with tasks that end and threads that are scheduled, every call of
\* process_images_parallel and create_zip returns or raises; inside a call
\* some thread can always step; and at the end of a call every submitted
\* item is in the result or the archive, or stands behind a logged or raised
\* error.
C12_CallsEndNothingLost ==
    /\ (pc \in InCall) ~> (pc \notin InCall)
    /\ [](pc \in InCall => ENABLED (WorkerStep \/ CallerStep))
    /\ [][(pc = "decode" /\ pc' \notin InCall) =>
             Len(session_state'.processed_images[1]) = Len(uploaded_files)]_vars
    /\ [][(pc = "zip" /\ pc' \notin InCall) =>
             Len(offered'[1]) + Len(log') = Len(Batch)]_vars
    /\ [][(pc \in {"decode_exit", "zip_exit"} /\ pc' \notin InCall) =>
             /\ raised # None
             /\ \A i \in DOMAIN futures :
                   futures[i].state \in {"finished", "cancelled"}]_vars

\* A build in which an encode has failed and every future was taken.
C12_Witness ==
    /\ pc = "zip"
    /\ consumed = DOMAIN futures
    /\ Len(futures) = 2
    /\ Len(log) = 1
    /\ Len(zip_file) = 1

\* C13: a failed decode leaves the page with the "Convert All" button, no
\* decoded batch and nothing offered; the next run with files needs
\* processing again and shows the button; and a decode whose inputs all
\* decode ends with a decoded batch.
C13_RetryAfterFailedDecode ==
    /\ [](path = "decode_failed" =>
             /\ pc = "idle"
             /\ convert_button
             /\ session_state.processed_images = None
             /\ offered = None
             /\ ENABLED ClickConvert)
    /\ [][(path = "decode_failed" /\ uploaded_files' # <<>>) =>
             /\ convert_button'
             /\ session_state'.processed_images = None
             /\ offered' = None
             /\ pc' \in {"idle", "decode"}]_vars
    /\ [][(/\ pc = "decode"
           /\ pc' # "decode"
           /\ Undecodable(uploaded_files) = {})
          => /\ pc' = "rerun"
             /\ HasBatch'
             /\ Len(session_state'.processed_images[1])
                   = Len(uploaded_files)]_vars

\* A decode has failed in a session that had converted a list before: the
\* old results are gone and the conversion can be clicked again.
C13_Witness ==
    /\ path = "decode_failed"
    /\ session_state.last_files_processed # None
    /\ session_state.processed_images = None
    /\ convert_button
    /\ ENABLED ClickConvert

\* The entries of the images of the batch that can be written.
GoodEntries ==
    {Encoded(i).value : i \in DOMAIN Batch \ Unencodable(Batch, target_format)}

\* C14: the archive gets its members in the order in which the script
\* thread takes the finished encodes: during a build the archive holds the
\* entries of the futures taken so far, each once per future, and a finished
\* archive holds the same members whatever the order.
C14_MembersSameInAnyOrder ==
    /\ pc = "zip" =>
          LET taken == {i \in consumed : futures[i].outcome[1].ok}
          IN /\ consumed \subseteq Finished
             /\ Len(zip_file) = Cardinality(taken)
             /\ \A i \in taken :
                   CountIn(zip_file, Encoded(i).value)
                      = Cardinality({j \in taken : Encoded(j) = Encoded(i)})
    /\ path = "zip_built" =>
          /\ Range(offered[1]) = GoodEntries
          /\ \A e \in GoodEntries :
                CountIn(offered[1], e)
                   = Cardinality({i \in DOMAIN Batch : Encoded(i) = Return(e)})

\* An archive of two images whose first member is the second image.
C14_Witness ==
    /\ path = "zip_built"
    /\ Len(Batch) = 2
    /\ Batch[1] # Batch[2]
    /\ offered[1] = <<Encoded(2).value, Encoded(1).value>>

\* A cache hit changes nothing in the session.
CacheHitLeavesSession == path' = "cache_hit" => session_state' = session_state

\* C15: a build leaves the decoded batch and the last-processed markers as
\* they are; all it changes in the session is one new cache entry, under the
\* requested format, holding the archive it offers; and it gives image i of
\* the batch to future i and to no other.
C15_BuildLeavesBatchUnchanged ==
    /\ [](pc \in {"zip", "zip_exit"} =>
             /\ DOMAIN futures = DOMAIN Batch
             /\ \A i \in Finished : futures[i].outcome[1] = Encoded(i))
    /\ [][(pc = "zip" \/ pc' = "zip") =>
             /\ session_state'.processed_images = session_state.processed_images
             /\ session_state'.last_files_processed
                   = session_state.last_files_processed
             /\ session_state'.last_format = session_state.last_format
             /\ \/ session_state'.zip_cache = session_state.zip_cache
                \/ /\ pc' = "idle"
                   /\ target_format \notin DOMAIN session_state.zip_cache
                   /\ DOMAIN session_state'.zip_cache
                         = DOMAIN session_state.zip_cache \cup {target_format}
                   /\ \A f \in DOMAIN session_state.zip_cache :
                         session_state'.zip_cache[f] = session_state.zip_cache[f]
                   /\ Some(session_state'.zip_cache[target_format]) = offered']_vars
    /\ [][CacheHitLeavesSession]_vars

\* An archive was built although one of two encodes failed; the batch is
\* whole and the cache has the one entry.
C15_Witness ==
    /\ path = "zip_built"
    /\ Len(Batch) = 2
    /\ Len(log) = 1
    /\ DOMAIN session_state.zip_cache = {JPEG}
    /\ Len(LastFiles) = 2

\* C16: the cache holds at most one entry; an entry is that of last_format,
\* and with an entry the session holds a decoded batch.
C16_CacheHoldsLastFormatOnly ==
    Initialized =>
       /\ Cardinality(DOMAIN session_state.zip_cache) <= 1
       /\ session_state.zip_cache # EmptyCache =>
             /\ session_state.last_format # None
             /\ DOMAIN session_state.zip_cache = {session_state.last_format[1]}
             /\ session_state.processed_images # None

\* A session that has converted twice, to two formats, and holds the archive
\* of the second.
C16_Witness ==
    /\ path = "cache_hit"
    /\ DOMAIN session_state.zip_cache = {WebP}
    /\ session_state.last_format = Some(WebP)
    /\ Len(Batch) = 2

\* The run that starts finds the files or the format changed, or no batch.
InputsChanged ==
    \/ ~HasBatch
    \/ session_state.last_files_processed = None
    \/ ListDiffers(uploaded_files', LastFiles)
    \/ Some(target_format') # session_state.last_format

\* C17: an offered archive belongs to the selected format and to a batch
\* decoded from a list with the uploaded list's length and names, and holds
\* only encodings of that batch to that format; a page run that finds the
\* files or the format changed shows the button and neither results nor an
\* archive, clicked or not.
C17_NoStaleDownload ==
    /\ [](offered # None =>
             /\ pc = "idle"
             /\ path \in {"zip_built", "cache_hit"}
             /\ uploaded_files # <<>>
             /\ HasBatch
             /\ session_state.last_files_processed # None
             /\ ~ListDiffers(uploaded_files, LastFiles)
             /\ session_state.last_format = Some(target_format)
             /\ \A i \in DOMAIN Batch :
                   Batch[i].original_name = uploaded_files[i].name
             /\ Range(offered[1]) = GoodEntries
             /\ \A k \in DOMAIN offered[1] :
                   offered[1][k].data.format = target_format)
    /\ [][(pc \in {"idle", "rerun"} /\ pc' # "rerun" /\ uploaded_files' # <<>>
           /\ InputsChanged) =>
             /\ offered' = None
             /\ session_state'.processed_images = None
             /\ session_state'.zip_cache = EmptyCache
             /\ convert_button'
             /\ path' \in {"button", "decoding"}]_vars

\* An archive is offered for two files after an earlier conversion of
\* another list to another format.
C17_Witness ==
    /\ offered # None
    /\ Len(uploaded_files) = 2
    /\ uploaded_files[1] # uploaded_files[2]
    /\ target_format = WebP
    /\ Len(offered[1]) = 2

\* C18: the archive changes only when it is opened or closed, or when the
\* script thread takes one finished future and appends that future's entry;
\* a step of a worker leaves it alone, it is empty outside a build, and an
\* archive that is offered is never changed.
C18_SingleArchiveWriter ==
    /\ [](pc \notin {"zip", "zip_exit"} => zip_file = <<>>)
    /\ [][zip_file' # zip_file =>
             \/ zip_file' = <<>> /\ pc = "zip" /\ pc' = "idle"
             \/ /\ pc = "zip" /\ pc' = "zip"
                /\ futures' = futures
                /\ \E i \in Finished \ consumed :
                      /\ consumed' = consumed \cup {i}
                      /\ futures[i].outcome[1].ok
                      /\ zip_file' = Append(zip_file, futures[i].outcome[1].value)]_vars
    /\ [][futures' # futures /\ pc' = pc => zip_file' = zip_file]_vars
    /\ [][offered # None /\ offered' # None => offered' = offered]_vars

\* One entry is written while a worker is still encoding.
C18_Witness ==
    /\ pc = "zip"
    /\ Len(zip_file) = 1
    /\ Running # {}

====
